---- MODULE Spec2Model ----
(***************************************************************************)
(* A model of the project/task tracker of src/app.py: the three tables of  *)
(* the SQLite store (projects, tasks, comments), the Flask handlers that   *)
(* write them, and the project_detail view with its ordering and progress  *)
(* computation.                                                            *)
(*                                                                         *)
(* Columns that no handler reads back in a condition (description,         *)
(* icon_data, projects.status, comments.created_at) are left out of the    *)
(* rows; every other column is kept.  get_db opens the connection with     *)
(* sqlite3.connect and sets row_factory only: it issues no                 *)
(* "PRAGMA foreign_keys = ON", so the FOREIGN KEY ... ON DELETE CASCADE    *)
(* clauses of init_db are parsed by SQLite but not enforced, and INSERT    *)
(* and DELETE touch exactly the rows their statement names.                *)
(***************************************************************************)
EXTENDS Integers, Sequences, FiniteSets, TLC

\* ------------------------------------------------------------- bounds
\* projects ever created (Spec, SpecDelete)
MaxProjects == 1
\* tasks ever created (Spec, SpecStatus, SpecDelete)
MaxTasks == 2
\* comments ever created (SpecComments, SpecDelete)
MaxComments == 2
\* tasks ever created in SpecView
MaxListTasks == 3
\* subtasks ever created in SpecProgress
MaxSubtasks == 3
\* seconds the clock runs in SpecView
MaxTime == 1

VARIABLES
    projects,         \* rows of table projects: [id, name]
    tasks,            \* rows of table tasks: [id, project_id, parent_task_id, name, status, created_at]
    comments,         \* rows of table comments: [id, entity_type, entity_id, content, author]
    sqlite_sequence,  \* AUTOINCREMENT counters, one per table
    now,              \* CURRENT_TIMESTAMP, in whole seconds
    request,          \* the request the last handler served
    response          \* what that handler returned

vars == <<projects, tasks, comments, sqlite_sequence, now, request, response>>

\* ------------------------------------------------------------- values
\* Python's None / SQL NULL, and a present value: an optional is a sequence
\* of length 0 or 1.
None == <<>>
Some(v) == <<v>>

\* The text of a form field: a decimal integer or some other text.
Digits(n) == [isnum |-> TRUE, val |-> n]
NotANumber == [isnum |-> FALSE, val |-> 0]

\* request.form.get(key, type=int): None when the field is absent or int()
\* raises ValueError on its text.
FormGetInt(field) ==
    IF field = None THEN None
    ELSE IF field[1].isnum THEN Some(field[1].val)
    ELSE None

\* Python truthiness of an optional int / optional str.
TruthyInt(v) == v # None /\ v[1] # 0
TruthyStr(v) == v # None /\ v[1] # ""

STATUSES == {"pending", "in_progress", "completed"}

\* ------------------------------------------------------------- inputs
ProjectIds == 1..MaxProjects
TaskIds == 1..MaxTasks
CommentIds == 1..MaxComments

RawProjectId == {None, Some(NotANumber)} \cup {Some(Digits(n)) : n \in 0..MaxProjects}
RawParentId == {None} \cup {Some(Digits(n)) : n \in 0..MaxTasks}
RawEntityId == {None, Some(NotANumber)} \cup {Some(Digits(n)) : n \in 0..MaxTasks}
RawName == {None, Some(""), Some("a"), Some("b")}
RawTaskName == {None, Some(""), Some("a")}
RawStatus == {None, Some("pending"), Some("in_progress"), Some("completed"), Some("archived")}
RawEntityType == {None, Some("project"), Some("task"), Some("widget")}
RawContent == {None, Some(""), Some("x")}
RawAuthor == {None, Some("Ann")}

\* ------------------------------------------------------------- responses
\* A response: the HTTP status, the "success" flag of a JSON body (None for a
\* redirect or a page) and the template context of a rendered page.  The
\* target of a redirect is not modelled.
Redirect == [status |-> 302, success |-> None, context |-> None]
JsonSuccess == [status |-> 200, success |-> Some(TRUE), context |-> None]
JsonFailure(code) == [status |-> code, success |-> Some(FALSE), context |-> None]
Rendered(context) == [status |-> 200, success |-> None, context |-> Some(context)]

Init ==
    /\ projects = {}
    /\ tasks = {}
    /\ comments = {}
    /\ sqlite_sequence = [projects |-> 0, tasks |-> 0, comments |-> 0]
    /\ now = 0
    /\ request = [route |-> "init_db"]
    /\ response = Redirect

\* The wall clock moves on between requests.
Tick ==
    /\ now < MaxTime
    /\ now' = now + 1
    /\ UNCHANGED <<projects, tasks, comments, sqlite_sequence, request, response>>

\* ------------------------------------------------------------- projects
add_project(name) ==
    /\ request' = [route |-> "add_project", form |-> [name |-> name]]
    /\ IF TruthyStr(name)
       THEN /\ projects' = projects \cup
                   {[id |-> sqlite_sequence.projects + 1, name |-> name[1]]}
            /\ sqlite_sequence' =
                   [sqlite_sequence EXCEPT !.projects = sqlite_sequence.projects + 1]
       ELSE UNCHANGED <<projects, sqlite_sequence>>
    /\ response' = Redirect
    /\ UNCHANGED <<tasks, comments, now>>

\* SELECT COUNT(*) FROM tasks WHERE project_id = ?
TaskCount(project_id) == Cardinality({t \in tasks : t.project_id = project_id})

\* delete_project without its task count check.
delete_project_unchecked(project_id) ==
    /\ request' = [route |-> "delete_project", project_id |-> project_id]
    /\ projects' = {p \in projects : p.id # project_id}
    /\ response' = Redirect
    /\ UNCHANGED <<tasks, comments, sqlite_sequence, now>>

delete_project(project_id) ==
    /\ request' = [route |-> "delete_project", project_id |-> project_id]
    /\ IF TaskCount(project_id) > 0
       THEN UNCHANGED projects
       ELSE projects' = {p \in projects : p.id # project_id}
    /\ response' = Redirect
    /\ UNCHANGED <<tasks, comments, sqlite_sequence, now>>

update_project(project_id, name) ==
    /\ request' = [route |-> "update_project", project_id |-> project_id,
                   form |-> [name |-> name]]
    /\ IF TruthyStr(name)
       THEN projects' = {IF p.id = project_id THEN [p EXCEPT !.name = name[1]] ELSE p
                         : p \in projects}
       ELSE UNCHANGED projects
    /\ response' = Redirect
    /\ UNCHANGED <<tasks, comments, sqlite_sequence, now>>

\* ------------------------------------------------------------- tasks
\* tasks.status gets the default of projects.status.
DefaultStatusOfProjects == "active"

\* status TEXT DEFAULT 'pending': the INSERT of add_task names no status.
DefaultStatus == "pending"

add_task(f_project_id, f_parent_task_id, name) ==
    LET project_id == FormGetInt(f_project_id)
        parent_task_id == FormGetInt(f_parent_task_id)
    IN  /\ request' = [route |-> "add_task",
                       form |-> [project_id |-> f_project_id,
                                 parent_task_id |-> f_parent_task_id,
                                 name |-> name]]
        /\ IF TruthyStr(name) /\ TruthyInt(project_id)
           THEN /\ tasks' = tasks \cup
                       {[id |-> sqlite_sequence.tasks + 1,
                         project_id |-> project_id[1],
                         parent_task_id |->
                             IF TruthyInt(parent_task_id) THEN parent_task_id ELSE None,
                         name |-> name[1],
                         status |-> DefaultStatus,
                         created_at |-> now]}
                /\ sqlite_sequence' =
                       [sqlite_sequence EXCEPT !.tasks = sqlite_sequence.tasks + 1]
           ELSE UNCHANGED <<tasks, sqlite_sequence>>
        /\ response' = Redirect
        /\ UNCHANGED <<projects, comments, now>>

update_task(task_id, name) ==
    /\ request' = [route |-> "update_task", task_id |-> task_id, form |-> [name |-> name]]
    /\ IF TruthyStr(name)
       THEN tasks' = {IF t.id = task_id THEN [t EXCEPT !.name = name[1]] ELSE t
                      : t \in tasks}
       ELSE UNCHANGED tasks
    /\ response' = Redirect
    /\ UNCHANGED <<projects, comments, sqlite_sequence, now>>

\* Any status that is present passes.
AnyStatus(status) == status # None

\* status in ['pending', 'in_progress', 'completed']
ValidStatus(status) == status # None /\ status[1] \in {"pending", "in_progress", "completed"}

update_task_status(task_id, status) ==
    /\ request' = [route |-> "update_task_status", task_id |-> task_id,
                   form |-> [status |-> status]]
    /\ IF ValidStatus(status)
       THEN /\ tasks' = {IF t.id = task_id THEN [t EXCEPT !.status = status[1]] ELSE t
                         : t \in tasks}
            /\ response' = JsonSuccess
       ELSE /\ UNCHANGED tasks
            /\ response' = JsonFailure(400)
    /\ UNCHANGED <<projects, comments, sqlite_sequence, now>>

\* delete_task that also deletes the comments on the task.
delete_task_and_comments(task_id) ==
    /\ request' = [route |-> "delete_task", task_id |-> task_id]
    /\ tasks' = {t \in tasks : t.id # task_id}
    /\ comments' = {c \in comments : ~(c.entity_type = "task" /\ c.entity_id = task_id)}
    /\ response' = Redirect
    /\ UNCHANGED <<projects, sqlite_sequence, now>>

delete_task(task_id) ==
    /\ request' = [route |-> "delete_task", task_id |-> task_id]
    /\ tasks' = {t \in tasks : t.id # task_id}
    /\ response' = Redirect
    /\ UNCHANGED <<projects, comments, sqlite_sequence, now>>

\* ------------------------------------------------------------- comments
\* The condition of add_comment without its entity_type test.
AnyEntityType(entity_type, entity_id, content) ==
    entity_type # None /\ TruthyInt(entity_id) /\ TruthyStr(content)

\* entity_type in ['project', 'task'] and entity_id and content
ValidComment(entity_type, entity_id, content) ==
    /\ entity_type # None
    /\ entity_type[1] \in {"project", "task"}
    /\ TruthyInt(entity_id)
    /\ TruthyStr(content)

add_comment(entity_type, f_entity_id, content, f_author) ==
    LET entity_id == FormGetInt(f_entity_id)
        author == IF f_author = None THEN "User" ELSE f_author[1]
    IN  /\ request' = [route |-> "add_comment",
                       form |-> [entity_type |-> entity_type, entity_id |-> f_entity_id,
                                 content |-> content, author |-> f_author]]
        /\ IF ValidComment(entity_type, entity_id, content)
           THEN /\ comments' = comments \cup
                       {[id |-> sqlite_sequence.comments + 1,
                         entity_type |-> entity_type[1],
                         entity_id |-> entity_id[1],
                         content |-> content[1],
                         author |-> author]}
                /\ sqlite_sequence' =
                       [sqlite_sequence EXCEPT !.comments = sqlite_sequence.comments + 1]
                /\ response' = JsonSuccess
           ELSE /\ UNCHANGED <<comments, sqlite_sequence>>
                /\ response' = JsonFailure(400)
        /\ UNCHANGED <<projects, tasks, now>>

update_comment(comment_id, content, author) ==
    /\ request' = [route |-> "update_comment", comment_id |-> comment_id,
                   form |-> [content |-> content, author |-> author]]
    /\ IF TruthyStr(content) /\ TruthyStr(author)
       THEN /\ comments' = {IF c.id = comment_id
                            THEN [c EXCEPT !.content = content[1], !.author = author[1]]
                            ELSE c : c \in comments}
            /\ response' = JsonSuccess
       ELSE /\ UNCHANGED comments
            /\ response' = JsonFailure(400)
    /\ UNCHANGED <<projects, tasks, sqlite_sequence, now>>

delete_comment(comment_id) ==
    /\ request' = [route |-> "delete_comment", comment_id |-> comment_id]
    /\ IF \E c \in comments : c.id = comment_id
       THEN /\ comments' = {c \in comments : c.id # comment_id}
            /\ response' = JsonSuccess
       ELSE /\ UNCHANGED comments
            /\ response' = JsonFailure(404)
    /\ UNCHANGED <<projects, tasks, sqlite_sequence, now>>

\* ------------------------------------------------------------- the project page
\* ORDER BY status: the statuses in alphabetical order.
StatusAlphabetical(status) ==
    CASE status = "completed" -> 1
      [] status = "in_progress" -> 2
      [] status = "pending" -> 3
      [] OTHER -> 0

\* CASE status WHEN 'pending' THEN 1 WHEN 'in_progress' THEN 2 WHEN 'completed'
\* THEN 3 END: NULL for any other status, which SQLite sorts before every number.
StatusRank(status) ==
    CASE status = "pending" -> 1
      [] status = "in_progress" -> 2
      [] status = "completed" -> 3
      [] OTHER -> 0

\* WHERE project_id = ? AND parent_task_id IS NULL
TopLevelTasks(project_id) ==
    {t \in tasks : t.project_id = project_id /\ t.parent_task_id = None}

\* ORDER BY CASE status ... END, created_at DESC: row a may not come after row b.
OrderByBefore(a, b) ==
    \/ StatusRank(a.status) < StatusRank(b.status)
    \/ StatusRank(a.status) = StatusRank(b.status) /\ a.created_at > b.created_at

\* Every result the SELECT may return: the rows in an order that the ORDER BY
\* terms allow.  Rows that agree on both terms come in an order SQL leaves
\* unspecified.
OrderedRows(rows) ==
    {s \in [1..Cardinality(rows) -> rows] :
        /\ \A i, j \in 1..Cardinality(rows) : i # j => s[i] # s[j]
        /\ \A i, j \in 1..Cardinality(rows) : i < j => ~OrderByBefore(s[j], s[i])}

\* SELECT * FROM tasks WHERE parent_task_id = ?
Subtasks(task_id) == {t \in tasks : t.parent_task_id = Some(task_id)}

\* The score the loop adds for one subtask.
Score(status) ==
    CASE status = "pending" -> 0
      [] status = "in_progress" -> 50
      [] status = "completed" -> 100
      [] OTHER -> 0

RECURSIVE TotalProgress(_)
TotalProgress(subtasks) ==
    IF subtasks = {} THEN 0
    ELSE LET subtask == CHOOSE t \in subtasks : TRUE
         IN  Score(subtask.status) + TotalProgress(subtasks \ {subtask})

\* The mean rounded to the nearest integer in place of truncated.
ProgressRounded(task_id) ==
    IF Subtasks(task_id) # {}
    THEN Some((2 * TotalProgress(Subtasks(task_id)) + Cardinality(Subtasks(task_id)))
                  \div (2 * Cardinality(Subtasks(task_id))))
    ELSE None

\* int(total_progress / len(subtasks)): a float division truncated toward zero;
\* both operands are non-negative here.
Progress(task_id) ==
    IF Subtasks(task_id) # {}
    THEN Some(TotalProgress(Subtasks(task_id)) \div Cardinality(Subtasks(task_id)))
    ELSE None

project_detail(project_id) ==
    /\ request' = [route |-> "project_detail", project_id |-> project_id]
    /\ IF \E p \in projects : p.id = project_id
       THEN \E rows \in OrderedRows(TopLevelTasks(project_id)) :
               response' = Rendered([tasks |-> rows,
                                     task_progress |->
                                         [id \in {t.id : t \in TopLevelTasks(project_id)}
                                             |-> Progress(id)]])
       ELSE response' = Redirect
    /\ UNCHANGED <<projects, tasks, comments, sqlite_sequence, now>>

\* ------------------------------------------------------------- specifications
\* Spec: the handlers that write project and task rows, on every form they
\* can be sent (absent and non-numeric fields, ids of rows that do not exist).
Next ==
    \/ \E name \in RawName :
           sqlite_sequence.projects < MaxProjects /\ add_project(name)
    \/ \E project_id \in ProjectIds : delete_project(project_id)
    \/ \E project_id \in ProjectIds, name \in RawName : update_project(project_id, name)
    \/ \E f_project_id \in RawProjectId, f_parent_task_id \in RawParentId,
          name \in RawTaskName :
           sqlite_sequence.tasks < MaxTasks /\ add_task(f_project_id, f_parent_task_id, name)
    \/ \E task_id \in TaskIds, name \in RawTaskName : update_task(task_id, name)
    \/ \E task_id \in TaskIds : delete_task(task_id)

Spec == Init /\ [][Next]_vars

\* SpecStatus: the task handlers, with every status a form can carry.
NextStatus ==
    \/ \E f_parent_task_id \in {None, Some(Digits(0)), Some(Digits(1))},
          name \in RawTaskName :
           sqlite_sequence.tasks < MaxTasks
               /\ add_task(Some(Digits(1)), f_parent_task_id, name)
    \/ \E task_id \in TaskIds, name \in RawName : update_task(task_id, name)
    \/ \E task_id \in TaskIds, status \in RawStatus : update_task_status(task_id, status)
    \/ \E task_id \in TaskIds : delete_task(task_id)

SpecStatus == Init /\ [][NextStatus]_vars

\* SpecComments: the comment handlers, on every form they can be sent.
NextComments ==
    \/ \E entity_type \in RawEntityType, f_entity_id \in RawEntityId,
          content \in RawContent, f_author \in RawAuthor :
           sqlite_sequence.comments < MaxComments
               /\ add_comment(entity_type, f_entity_id, content, f_author)
    \/ \E comment_id \in CommentIds, content \in RawContent, author \in RawAuthor :
           update_comment(comment_id, content, author)
    \/ \E comment_id \in CommentIds : delete_comment(comment_id)

SpecComments == Init /\ [][NextComments]_vars

\* SpecDelete: one project, its tasks and subtasks, comments attached to them,
\* and the handlers that delete projects, tasks and comments.
NextDelete ==
    \/ sqlite_sequence.projects = 0 /\ add_project(Some("a"))
    \/ \E project_id \in ProjectIds : delete_project(project_id)
    \/ \E f_parent_task_id \in {None, Some(Digits(1))} :
           sqlite_sequence.tasks < MaxTasks
               /\ add_task(Some(Digits(1)), f_parent_task_id, Some("a"))
    \/ \E task_id \in TaskIds : delete_task(task_id)
    \/ \E entity_type \in {Some("project"), Some("task")}, entity_id \in TaskIds :
           sqlite_sequence.comments < MaxComments
               /\ add_comment(entity_type, Some(Digits(entity_id)), Some("x"), None)
    \/ \E comment_id \in CommentIds : delete_comment(comment_id)

SpecDelete == Init /\ [][NextDelete]_vars

\* SpecView: one project, its tasks created as the clock runs, their statuses
\* changed, and the project page rendered.
NextView ==
    \/ Tick
    \/ sqlite_sequence.projects = 0 /\ add_project(Some("a"))
    \/ \E f_parent_task_id \in {None, Some(Digits(0)), Some(Digits(1))} :
           sqlite_sequence.tasks < MaxListTasks
               /\ add_task(Some(Digits(1)), f_parent_task_id, Some("a"))
    \/ \E task_id \in 1..MaxListTasks, status \in {Some(s) : s \in STATUSES} :
           update_task_status(task_id, status)
    \/ project_detail(1)

SpecView == Init /\ [][NextView]_vars

\* SpecProgress: one project, one task and its subtasks, their statuses
\* changed, and the project page rendered.
NextProgress ==
    \/ sqlite_sequence.projects = 0 /\ add_project(Some("a"))
    \/ \E f_parent_task_id \in {None, Some(Digits(1))} :
           sqlite_sequence.tasks < 1 + MaxSubtasks
               /\ add_task(Some(Digits(1)), f_parent_task_id, Some("a"))
    \/ \E task_id \in 1..(1 + MaxSubtasks), status \in {Some(s) : s \in STATUSES} :
           update_task_status(task_id, status)
    \/ project_detail(1)

SpecProgress == Init /\ [][NextProgress]_vars

\* ------------------------------------------------------------- properties
Ids(rows) == {r.id : r \in rows}

\* C1: a delete_task of a top-level task leaves no task row with that id and
\* no task row whose parent_task_id is that id.
C1_DeleteTaskCascades ==
    [][\A task_id \in TaskIds :
          (/\ request'.route = "delete_task"
           /\ request'.task_id = task_id
           /\ \E t \in tasks : t.id = task_id /\ t.parent_task_id = None)
          => \A t \in tasks' : t.id # task_id /\ t.parent_task_id # Some(task_id)]_vars

\* C2: a delete_project of a project id that some task row carries changes
\* neither projects nor tasks; with no such task row it removes the project
\* row (and only that); and a project row disappears from the table only in a
\* step taken where no task row carries its id.
C2_DeleteProjectOnlyWhenEmpty ==
    [][/\ \A project_id \in ProjectIds :
             (request'.route = "delete_project" /\ request'.project_id = project_id)
             => /\ tasks' = tasks
                /\ IF \E t \in tasks : t.project_id = project_id
                   THEN projects' = projects
                   ELSE /\ project_id \notin Ids(projects')
                        /\ \A p \in projects : p.id # project_id => p \in projects'
                        /\ projects' \subseteq projects
       /\ \A p \in projects :
             p.id \notin Ids(projects') => ~ \E t \in tasks : t.project_id = p.id]_vars

\* C2 witness: the last request was a delete_project of a project that exists
\* and owns a task: the deletion was refused.
C2_Witness ==
    /\ request.route = "delete_project"
    /\ request.project_id \in Ids(projects)
    /\ \E t \in tasks : t.project_id = request.project_id

\* C3: every task row's project_id is the id of a project row that exists.
C3_TaskProjectExists ==
    \A t \in tasks : t.project_id \in Ids(projects)

\* C4: no task with a non-null parent_task_id is the parent_task_id of
\* another task.
C4_TwoLevels ==
    \A t \in tasks, u \in tasks :
        (t.parent_task_id # None /\ u.id # t.id) => u.parent_task_id # Some(t.id)

\* C5: a delete_project or delete_task leaves the comments table as it was.
C5_DeleteKeepsComments ==
    [][request'.route \in {"delete_project", "delete_task"} => comments' = comments]_vars

\* C5 witness: the last request deleted a task that had been created, the
\* task row is gone, and a comment on that task is still in the table.
C5_Witness ==
    /\ request.route = "delete_task"
    /\ request.task_id \in 1..sqlite_sequence.tasks
    /\ request.task_id \notin Ids(tasks)
    /\ \E c \in comments : c.entity_type = "task" /\ c.entity_id = request.task_id

\* C6: update_task_status answers success = true exactly when the status
\* field is pending, in_progress or completed, and then the task of that id
\* carries the status and nothing else changed; otherwise it answers
\* success = false with HTTP 400 and the tasks table is as it was.
C6_UpdateStatusChecked ==
    [][request'.route = "update_task_status" =>
          LET status == request'.form.status
              task_id == request'.task_id
          IN  IF status \in {Some("pending"), Some("in_progress"), Some("completed")}
              THEN /\ response'.success = Some(TRUE)
                   /\ response'.status = 200
                   /\ Ids(tasks') = Ids(tasks)
                   /\ \A t \in tasks : \A u \in tasks' :
                          u.id = t.id =>
                              u = [t EXCEPT !.status =
                                      IF t.id = task_id THEN status[1] ELSE t.status]
              ELSE /\ response'.success = Some(FALSE)
                   /\ response'.status = 400
                   /\ tasks' = tasks]_vars

\* C6 witness: the last request asked for status "archived" on a task that
\* exists and was answered 400 with success = false.
C6_Witness ==
    /\ request.route = "update_task_status"
    /\ request.form.status = Some("archived")
    /\ request.task_id \in Ids(tasks)
    /\ response.status = 400
    /\ response.success = Some(FALSE)

\* C7: every task row's status is pending, in_progress or completed.
C7_StatusValid ==
    \A t \in tasks : t.status \in {"pending", "in_progress", "completed"}

\* C7 witness: a task that was moved to completed has since had its name
\* updated, beside a task still in its status of creation.
C7_Witness ==
    /\ request.route = "update_task"
    /\ TruthyStr(request.form.name)
    /\ \E t \in tasks : /\ t.id = request.task_id
                        /\ t.status = "completed"
                        /\ t.name = request.form.name[1]
    /\ \E t \in tasks : t.status = "pending"

\* The rows the project page lists, when the last response is that page.
PageShown == request.route = "project_detail" /\ response.context # None
ListedTasks == response.context[1].tasks
ListedExactly ==
    /\ Len(ListedTasks) = Cardinality(TopLevelTasks(request.project_id))
    /\ {ListedTasks[i] : i \in 1..Len(ListedTasks)} =
           {t \in tasks : t.project_id = request.project_id /\ t.parent_task_id = None}
ListedByStatus ==
    \A i, j \in 1..Len(ListedTasks) :
        i < j => /\ ListedTasks[j].status = "pending" => ListedTasks[i].status = "pending"
                 /\ ListedTasks[j].status = "in_progress" =>
                        ListedTasks[i].status \in {"pending", "in_progress"}

\* C8 as stated: the page lists exactly the project's top-level tasks, pending
\* before in_progress before completed, and within one status a task created
\* later (AUTOINCREMENT gives it the larger id) before a task created earlier.
C8_ListOrderedByCreation ==
    PageShown =>
        /\ ListedExactly
        /\ ListedByStatus
        /\ \A i, j \in 1..Len(ListedTasks) :
               (i < j /\ ListedTasks[i].status = ListedTasks[j].status)
               => ListedTasks[i].id > ListedTasks[j].id

\* C8 amended: the page lists exactly the project's top-level tasks, pending
\* before in_progress before completed, and within one status no task comes
\* after a task whose created_at is earlier; tasks of one status created in
\* the same second come in either order.
C8_ListOrderedByCreatedAt ==
    PageShown =>
        /\ ListedExactly
        /\ ListedByStatus
        /\ \A i, j \in 1..Len(ListedTasks) :
               (i < j /\ ListedTasks[i].status = ListedTasks[j].status)
               => ListedTasks[i].created_at >= ListedTasks[j].created_at

\* C8 witness: the page lists three tasks: two pending ones created in
\* different seconds, the later first, and last a completed task that was
\* created after the pending task listed second.
C8_Witness ==
    /\ PageShown
    /\ Len(ListedTasks) = 3
    /\ ListedTasks[1].status = "pending"
    /\ ListedTasks[2].status = "pending"
    /\ ListedTasks[1].created_at > ListedTasks[2].created_at
    /\ ListedTasks[3].status = "completed"
    /\ ListedTasks[3].id > ListedTasks[2].id

\* The subtasks of a task that carry a status.
SubtasksIn(task_id, status) ==
    {t \in tasks : t.parent_task_id = Some(task_id) /\ t.status = status}
SubtaskCount(task_id) == Cardinality({t \in tasks : t.parent_task_id = Some(task_id)})
ScoreSum(task_id) ==
    50 * Cardinality(SubtasksIn(task_id, "in_progress"))
        + 100 * Cardinality(SubtasksIn(task_id, "completed"))

\* C9: on the project page the progress of a listed task is null when it has
\* no subtasks; otherwise it is the floor of (50 per in_progress subtask + 100
\* per completed subtask) / (number of subtasks), lies in 0..100, is 50 for
\* one pending and one completed subtask, and is 100 exactly when every
\* subtask is completed.
C9_Progress ==
    PageShown =>
        LET task_progress == response.context[1].task_progress
        IN  /\ DOMAIN task_progress = {ListedTasks[i].id : i \in 1..Len(ListedTasks)}
            /\ \A id \in DOMAIN task_progress :
                   LET n == SubtaskCount(id)
                       p == task_progress[id]
                   IN  IF n = 0 THEN p = None
                       ELSE /\ p # None
                            /\ p[1] \in 0..100
                            /\ p[1] * n <= ScoreSum(id)
                            /\ ScoreSum(id) < (p[1] + 1) * n
                            /\ (p[1] = 100) <=>
                                   (Cardinality(SubtasksIn(id, "completed")) = n)
                            /\ (/\ n = 2
                                /\ Cardinality(SubtasksIn(id, "pending")) = 1
                                /\ Cardinality(SubtasksIn(id, "completed")) = 1) => p[1] = 50

\* C9 witness: the page shows a task with three subtasks, one of them
\* in_progress and two pending, at progress 16 (50 / 3 truncated).
C9_Witness ==
    /\ PageShown
    /\ \E id \in DOMAIN response.context[1].task_progress :
           /\ SubtaskCount(id) = 3
           /\ Cardinality(SubtasksIn(id, "in_progress")) = 1
           /\ Cardinality(SubtasksIn(id, "pending")) = 2
           /\ response.context[1].task_progress[id] = Some(16)

\* C10: add_comment answers success = false with HTTP 400 and leaves the
\* comments table as it was when entity_type is not project or task, when
\* entity_id is absent, not a number or zero, or when content is absent or
\* empty; otherwise it adds exactly one row, with the entity_type, entity_id
\* and content of the form.  Every comment row's entity_type is project or
\* task.
C10_AddCommentChecked ==
    [][/\ request'.route = "add_comment" =>
              LET f == request'.form
                  rejected ==
                      \/ f.entity_type \notin {Some("project"), Some("task")}
                      \/ f.entity_id = None
                      \/ ~ f.entity_id[1].isnum
                      \/ f.entity_id[1].val = 0
                      \/ f.content = None
                      \/ f.content = Some("")
              IN  IF rejected
                  THEN /\ comments' = comments
                       /\ response'.success = Some(FALSE)
                       /\ response'.status = 400
                  ELSE /\ comments \subseteq comments'
                       /\ Cardinality(comments' \ comments) = 1
                       /\ \A c \in comments' \ comments :
                              /\ c.entity_type = f.entity_type[1]
                              /\ c.entity_id = f.entity_id[1].val
                              /\ c.content = f.content[1]
                       /\ response'.success = Some(TRUE)
       /\ \A c \in comments' : c.entity_type \in {"project", "task"}]_vars

\* C10 witness: the last request was an add_comment with entity_type
\* "widget", a usable entity_id and content, and it was answered 400.
C10_Witness ==
    /\ request.route = "add_comment"
    /\ request.form.entity_type = Some("widget")
    /\ request.form.entity_id = Some(Digits(1))
    /\ request.form.content = Some("x")
    /\ response.status = 400
    /\ comments = {}
====
